---- MODULE Spec2Model ----
(***************************************************************************)
(* Models of the two programs of the repository.                           *)
(*                                                                         *)
(*  - src/src/main.rs, the lane-runner game: a Bevy application whose      *)
(*    systems run once per frame.  A frame is: the state transition        *)
(*    requested through NextState in the previous frame (OnExit of the old *)
(*    state, then OnEnter of the new one), then the Update systems of the  *)
(*    current state, then the deferred commands (spawn / despawn) queued   *)
(*    by these systems.  The Playing systems are registered as a plain     *)
(*    tuple (main.rs:110-122, no .chain()), so the engine may run them in  *)
(*    any order; the model draws the order of a frame from SystemOrders.   *)
(*                                                                         *)
(*  - src/src/app.rs, the calculator: four signals and one closure per     *)
(*    button / key.                                                        *)
(*                                                                         *)
(* Numbers.  f32 lengths are fixed-point integers in hundredths of a world *)
(* unit, time is in hundredths of a second, the score in tenths of a       *)
(* point; every constant of main.rs is exact in these units.               *)
(***************************************************************************)
EXTENDS Integers, Sequences, FiniteSets, TLC

\* ------------------------------------------------------------------------
\* Lane runner: tuning constants (main.rs:10-20), scaled
\* ------------------------------------------------------------------------
TRACK_HALF_X == 420
PLAYER_Z == 0
PLAYER_SIZE == 80
OBSTACLE_SIZE == 80
OBSTACLE_START_Z == -2500
OBSTACLE_DESPAWN_Z == 700
OBSTACLE_SPEED == 8
SPAWN_EVERY == 90
DRAG_X_PER_PX == 2
PLAYER_LERP_SPEED == 12
KEY_STEP_X == 90

\* ------------------------------------------------------------------------
\* Bounds of the model
\* ------------------------------------------------------------------------
\* a round is followed until score.value reaches MaxScore (tenths of a point)
MaxScore == 540
\* number of times Playing is entered
MaxRounds == 2
\* largest horizontal pixel position of a touch
MaxDragPx == 500
\* SteerSpec follows the first round until score.value reaches MaxSteerScore
MaxSteerScore == 40

\* LerpSpec follows the first round until score.value reaches MaxLerpScore;
\* from MaxSteerScore on it has no steering input and frames of positive
\* duration
MaxLerpScore == 140

\* TunnelSpec follows the first round until score.value reaches MaxTunnelScore
MaxTunnelScore == 500

\* frame durations (Time::delta), in hundredths of a second
Deltas == {0, 20}
\* frame durations of TunnelSpec: 0.2 s and 0.25 s (a slow frame)
TunnelDeltas == {20, 25}
\* outcomes of rng.gen_range(-TRACK_HALF_X..=TRACK_HALF_X)
ObstacleXs == {0, TRACK_HALF_X}
TouchPhases == {"Started", "Moved", "Ended", "Canceled"}
Touch(ph, id, x) == [phase |-> ph, id |-> id, x |-> x]
NoInput == [keys |-> {}, mouse |-> FALSE, touch |-> <<>>]
Keys(ks) == [NoInput EXCEPT !.keys = ks]
Touches(evs) == [NoInput EXCEPT !.touch = evs]
\* the input delivered in one frame: the keys just pressed, whether the left
\* mouse button was just pressed, the touch events.  InputChoices has every
\* primary input and one drag to the right edge of the track
InputChoices ==
    {NoInput, Keys({"Space"}), Keys({"Enter"}), [NoInput EXCEPT !.mouse = TRUE],
     Touches(<<Touch("Started", 1, 0)>>), Touches(<<Touch("Moved", 1, MaxDragPx)>>),
     Touches(<<Touch("Ended", 1, 0)>>)}

\* SteerChoices has the steering input: both directions on the keyboard, and
\* touches of two fingers that start, move (by every difference of two
\* positions of PixelXs), end and are cancelled
TouchIds == {1, 2}
PixelXs == {0, 30, MaxDragPx}
SteerChoices ==
    {NoInput, Keys({"ArrowLeft"}), Keys({"ArrowRight"}), Keys({"KeyA"}), Keys({"KeyD"}),
     Keys({"ArrowLeft", "ArrowRight"})}
    \cup {Touches(<<Touch(ph, id, x)>>) :
             ph \in {"Started", "Moved"}, id \in TouchIds, x \in PixelXs}
    \cup {Touches(<<Touch(ph, id, 0)>>) : ph \in {"Ended", "Canceled"}, id \in TouchIds}
    \cup {Touches(<<Touch("Started", 1, 0), Touch("Moved", 1, MaxDragPx),
                    Touch("Ended", 1, MaxDragPx)>>)}

GameStates == {"Menu", "Playing", "GameOver"}

PlayingSystems == <<"player_input", "update_player_transform", "spawn_obstacles",
                    "move_obstacles", "collision_system", "score_system",
                    "update_score_text">>

RECURSIVE Reverse(_)
Reverse(s) == IF s = <<>> THEN <<>> ELSE Append(Reverse(Tail(s)), Head(s))

\* orders in which the engine may run the unordered Playing systems
SystemOrders == {PlayingSystems, Reverse(PlayingSystems)}

VARIABLES
    state,        \* State<GameState>
    next_state,   \* NextState<GameState>: "None" or the requested state
    phase,        \* position in the frame: "idle", "enter", "update"
    todo,         \* the Update systems still to run in this frame
    delta,        \* Time::delta of this frame
    input,        \* the input of this frame as read by the step that just ran
                  \* (NoInput after a step that reads none)
    players,      \* entities with Player: sequence of [x, target_x]
    obstacles,    \* entities with Obstacle: sequence of [x, z]
    spawn_q,      \* deferred commands: obstacles to spawn
    despawn_q,    \* deferred commands: indices of obstacles to despawn
    grounds,      \* number of ground entities (spawned without a marker)
    hud,          \* entities with HudRoot: sequence of the text shown
    menu_ui,      \* number of entities with MenuUi
    game_over_ui, \* entities with GameOverUi: sequence of [score, best]
    score,        \* Score resource: [value, best]
    spawn_timer,  \* SpawnTimer: elapsed time of the repeating timer
    touch_state,  \* TouchState resource: [active_id, anchor]; an Option is <<>> or <<v>>
    \* the calculator (app.rs:15-18)
    display,              \* the display string, a sequence of characters
    previous_value,       \* the stored operand
    operation,            \* the pending operator
    waiting_for_operand,  \* the next digit starts a new number
    pressed               \* the keys and buttons pressed so far (KeySpec, ExprSpec)

gvars == <<state, next_state, phase, todo, delta, input, players, obstacles,
           spawn_q, despawn_q, grounds, hud, menu_ui, game_over_ui, score,
           spawn_timer, touch_state>>

cvars == <<display, previous_value, operation, waiting_for_operand, pressed>>

vars == <<gvars, cvars>>

\* ------------------------------------------------------------------------
\* helpers
\* ------------------------------------------------------------------------
Abs(n) == IF n < 0 THEN -n ELSE n

\* f32::clamp
Clamp(v, lo, hi) == IF v < lo THEN lo ELSE IF v > hi THEN hi ELSE v

\* `value as i32` of a non-negative score kept in tenths
AsI32(v) == v \div 10

RECURSIVE SeqMap(_, _)
SeqMap(F(_), s) == IF s = <<>> THEN <<>> ELSE <<F(Head(s))>> \o SeqMap(F, Tail(s))

\* ------------------------------------------------------------------------
\* Init: the world after Startup and the initial OnEnter(Menu)
\* ------------------------------------------------------------------------
GameInit ==
    /\ state = "Menu"
    /\ next_state = "None"
    /\ phase = "idle"
    /\ todo = <<>>
    /\ delta = 0
    /\ input = NoInput
    /\ players = <<>>
    /\ obstacles = <<>>
    /\ spawn_q = <<>>
    /\ despawn_q = {}
    /\ grounds = 0
    /\ hud = <<>>
    /\ menu_ui = 1
    /\ game_over_ui = <<>>
    /\ score = [value |-> 0, best |-> 0]
    /\ spawn_timer = 0
    /\ touch_state = [active_id |-> <<>>, anchor |-> <<>>]

\* ------------------------------------------------------------------------
\* the frame
\* ------------------------------------------------------------------------
\* the Update systems registered for a state (main.rs:106, 110-122, 126);
\* first_update_probe only logs
UpdateSystems(st, order) ==
    CASE st = "Menu" -> <<"menu_start">>
      [] st = "Playing" -> order
      [] st = "GameOver" -> <<"game_over_restart">>

\* a frame without a pending transition starts: the engine sets the time step
\* and schedules the Update systems of the current state.  The input of the
\* frame is drawn by the one system of the state that reads it
Tick ==
    /\ phase = "idle"
    /\ next_state = "None"
    /\ \E d \in Deltas, order \in SystemOrders :
          /\ state = "Playing" => score.value + d <= MaxScore
          /\ delta' = d
          /\ todo' = UpdateSystems(state, order)
    /\ phase' = "update"
    /\ UNCHANGED <<cvars, state, input, next_state, players, obstacles, spawn_q, despawn_q,
                   grounds, hud, menu_ui, game_over_ui, score, spawn_timer,
                   touch_state>>

\* Tick of SteerSpec
SteerTick ==
    /\ phase = "idle"
    /\ next_state = "None"
    /\ \E d \in Deltas, order \in SystemOrders :
          /\ state = "Playing" => score.value + d <= MaxSteerScore
          /\ delta' = d
          /\ todo' = UpdateSystems(state, order)
    /\ phase' = "update"
    /\ UNCHANGED <<cvars, state, input, next_state, players, obstacles, spawn_q, despawn_q,
                   grounds, hud, menu_ui, game_over_ui, score, spawn_timer,
                   touch_state>>

\* Tick of LerpSpec
LerpTick ==
    /\ phase = "idle"
    /\ next_state = "None"
    /\ \E d \in Deltas, order \in SystemOrders :
          /\ state = "Playing" => score.value + d <= MaxLerpScore
          /\ (state = "Playing" /\ score.value >= MaxSteerScore) => d > 0
          /\ delta' = d
          /\ todo' = UpdateSystems(state, order)
    /\ phase' = "update"
    /\ UNCHANGED <<cvars, state, input, next_state, players, obstacles, spawn_q, despawn_q,
                   grounds, hud, menu_ui, game_over_ui, score, spawn_timer,
                   touch_state>>

\* Tick of TunnelSpec
TunnelTick ==
    /\ phase = "idle"
    /\ next_state = "None"
    /\ \E d \in TunnelDeltas, order \in SystemOrders :
          /\ state = "Playing" => score.value + d <= MaxTunnelScore
          /\ delta' = d
          /\ todo' = UpdateSystems(state, order)
    /\ phase' = "update"
    /\ UNCHANGED <<cvars, state, input, next_state, players, obstacles, spawn_q, despawn_q,
                   grounds, hud, menu_ui, game_over_ui, score, spawn_timer,
                   touch_state>>

Runs(sys) == phase = "update" /\ todo # <<>> /\ Head(todo) = sys

\* a system has run, reading the input i: the next one of the frame is due
RanWith(i) == /\ todo' = Tail(todo)
              /\ input' = i
              /\ UNCHANGED <<state, phase, delta, cvars>>

Ran == RanWith(NoInput)

\* touched || clicked || keyed of menu_start and game_over_restart
PrimaryInput(i) ==
    LET touched == i.touch # <<>>
        clicked == i.mouse
        keyed == "Space" \in i.keys \/ "Enter" \in i.keys
    IN  touched \/ clicked \/ keyed

\* ------------------------------------------------------------------------
\* Menu
\* ------------------------------------------------------------------------
\* menu_start without its test of the input
menu_start_always ==
    /\ Runs("menu_start")
    /\ next_state' = "Playing"
    /\ \E i \in InputChoices : RanWith(i)
    /\ UNCHANGED <<players, obstacles, spawn_q, despawn_q, grounds, hud,
                   menu_ui, game_over_ui, score, spawn_timer, touch_state>>

menu_start ==
    /\ Runs("menu_start")
    /\ \E i \in InputChoices :
          /\ next_state' = IF PrimaryInput(i) THEN "Playing" ELSE next_state
          /\ RanWith(i)
    /\ UNCHANGED <<players, obstacles, spawn_q, despawn_q, grounds, hud,
                   menu_ui, game_over_ui, score, spawn_timer, touch_state>>

\* OnExit(Menu), run when the requested transition is applied
exit_menu ==
    /\ phase = "idle" /\ next_state # "None" /\ state = "Menu"
    /\ state' = next_state
    /\ next_state' = "None"
    /\ menu_ui' = 0
    /\ phase' = "enter"
    /\ UNCHANGED <<cvars, todo, delta, input, players, obstacles, spawn_q, despawn_q,
                   grounds, hud, game_over_ui, score, spawn_timer, touch_state>>

\* ------------------------------------------------------------------------
\* Playing
\* ------------------------------------------------------------------------
\* enter_playing without the reset of score.value
enter_playing_keeps_score ==
    /\ phase = "enter" /\ state = "Playing"
    /\ score' = score
    /\ spawn_timer' = 0
    /\ players' = Append(players, [x |-> 0, target_x |-> 0])
    /\ grounds' = grounds + 1
    /\ hud' = Append(hud, 0)
    /\ phase' = "idle"
    /\ UNCHANGED <<cvars, state, next_state, todo, delta, input, obstacles, spawn_q,
                   despawn_q, menu_ui, game_over_ui, touch_state>>

enter_playing ==
    /\ phase = "enter" /\ state = "Playing"
    /\ score' = [score EXCEPT !.value = 0]
    /\ spawn_timer' = 0
    /\ players' = Append(players, [x |-> 0, target_x |-> 0])
    /\ grounds' = grounds + 1
    /\ hud' = Append(hud, 0)
    /\ phase' = "idle"
    /\ UNCHANGED <<cvars, state, next_state, todo, delta, input, obstacles, spawn_q,
                   despawn_q, menu_ui, game_over_ui, touch_state>>

\* a target that is not clamped
ClampTrack_none(v) == v

ClampTrack(v) == Clamp(v, -TRACK_HALF_X, TRACK_HALF_X)

\* the keyboard part of player_input, for one player
KeyStep(p, keys) ==
    LET left == "ArrowLeft" \in keys \/ "KeyA" \in keys
        right == "ArrowRight" \in keys \/ "KeyD" \in keys
        t1 == IF left THEN ClampTrack(p.target_x - KEY_STEP_X) ELSE p.target_x
        t2 == IF right THEN ClampTrack(t1 + KEY_STEP_X) ELSE t1
    IN  [p EXCEPT !.target_x = t2]

\* the touch part of player_input with a Moved arm that does not compare the
\* id of the event to active_id
TouchStep_any_id(w, ev) ==
    CASE ev.phase = "Started" ->
            IF w.ts.active_id = <<>>
            THEN [w EXCEPT !.ts = [active_id |-> <<ev.id>>, anchor |-> <<ev.x>>]]
            ELSE w
      [] ev.phase = "Moved" ->
            IF w.ts.anchor # <<>>
            THEN LET dx_px == ev.x - w.ts.anchor[1]
                     Drag(p) == [p EXCEPT !.target_x =
                                   ClampTrack(p.target_x + dx_px * DRAG_X_PER_PX)]
                 IN  [ps |-> SeqMap(Drag, w.ps),
                      ts |-> [w.ts EXCEPT !.anchor = <<ev.x>>]]
            ELSE w
      [] OTHER ->
            IF w.ts.active_id = <<ev.id>>
            THEN [w EXCEPT !.ts = [active_id |-> <<>>, anchor |-> <<>>]]
            ELSE w

\* the touch part of player_input, for one event; w = [ps, ts]
TouchStep(w, ev) ==
    CASE ev.phase = "Started" ->
            IF w.ts.active_id = <<>>
            THEN [w EXCEPT !.ts = [active_id |-> <<ev.id>>, anchor |-> <<ev.x>>]]
            ELSE w
      [] ev.phase = "Moved" ->
            IF w.ts.active_id = <<ev.id>> /\ w.ts.anchor # <<>>
            THEN LET dx_px == ev.x - w.ts.anchor[1]
                     Drag(p) == [p EXCEPT !.target_x =
                                   ClampTrack(p.target_x + dx_px * DRAG_X_PER_PX)]
                 IN  [ps |-> SeqMap(Drag, w.ps),
                      ts |-> [w.ts EXCEPT !.anchor = <<ev.x>>]]
            ELSE w
      [] OTHER ->
            IF w.ts.active_id = <<ev.id>>
            THEN [w EXCEPT !.ts = [active_id |-> <<>>, anchor |-> <<>>]]
            ELSE w

RECURSIVE TouchLoop(_, _)
TouchLoop(w, evs) ==
    IF evs = <<>> THEN w ELSE TouchLoop(TouchStep(w, Head(evs)), Tail(evs))

\* player_input on the input i
PlayerInput(i) ==
    /\ Runs("player_input")
    /\ LET Keyed(p) == KeyStep(p, i.keys)
           w == TouchLoop([ps |-> SeqMap(Keyed, players), ts |-> touch_state],
                          i.touch)
       IN  /\ players' = w.ps
           /\ touch_state' = w.ts
    /\ RanWith(i)
    /\ UNCHANGED <<next_state, obstacles, spawn_q, despawn_q, grounds, hud,
                   menu_ui, game_over_ui, score, spawn_timer>>

\* update_player_transform writing the target into the position
LerpStep_teleports(p, d) == [p EXCEPT !.x = p.target_x]

LerpStep(p, d) ==
    LET dx == p.target_x - p.x
        step == PLAYER_LERP_SPEED * d
    IN  IF Abs(dx) <= step THEN [p EXCEPT !.x = p.target_x]
        ELSE IF dx > 0 THEN [p EXCEPT !.x = p.x + step]
        ELSE [p EXCEPT !.x = p.x - step]

update_player_transform ==
    /\ Runs("update_player_transform")
    /\ LET Lerp(p) == LerpStep(p, delta) IN players' = SeqMap(Lerp, players)
    /\ Ran
    /\ UNCHANGED <<next_state, obstacles, spawn_q, despawn_q, grounds, hud,
                   menu_ui, game_over_ui, score, spawn_timer, touch_state>>

player_input == \E i \in InputChoices : PlayerInput(i)

\* player_input of SteerSpec
steer_input == \E i \in SteerChoices : PlayerInput(i)

\* player_input of TunnelSpec: the player is not steered
idle_input == PlayerInput(NoInput)

\* player_input of LerpSpec: steering input until MaxSteerScore, none after
lerp_input ==
    \E i \in (IF score.value < MaxSteerScore THEN SteerChoices ELSE {NoInput}) :
        PlayerInput(i)

\* Timer::tick of the repeating timer: elapsed time and just_finished
TimerTick(elapsed, d) ==
    LET e == elapsed + d
    IN  IF e >= SPAWN_EVERY THEN [elapsed |-> e % SPAWN_EVERY, just_finished |-> TRUE]
        ELSE [elapsed |-> e, just_finished |-> FALSE]

spawn_obstacles ==
    /\ Runs("spawn_obstacles")
    /\ LET t == TimerTick(spawn_timer, delta)
       IN  /\ spawn_timer' = t.elapsed
           /\ IF t.just_finished
              THEN \E x \in ObstacleXs :
                      spawn_q' = Append(spawn_q, [x |-> x, z |-> OBSTACLE_START_Z])
              ELSE spawn_q' = spawn_q
    /\ Ran
    /\ UNCHANGED <<next_state, players, obstacles, despawn_q, grounds, hud,
                   menu_ui, game_over_ui, score, touch_state>>

\* move_obstacles without the despawn past OBSTACLE_DESPAWN_Z
move_obstacles_no_despawn ==
    /\ Runs("move_obstacles")
    /\ LET Move(o) == [o EXCEPT !.z = o.z + OBSTACLE_SPEED * delta]
       IN  obstacles' = SeqMap(Move, obstacles)
    /\ Ran
    /\ UNCHANGED <<next_state, players, spawn_q, despawn_q, grounds, hud, menu_ui,
                   game_over_ui, score, spawn_timer, touch_state>>

MoveObstacle(o, d) == [o EXCEPT !.z = o.z + OBSTACLE_SPEED * d]

move_obstacles ==
    /\ Runs("move_obstacles")
    /\ LET Move(o) == MoveObstacle(o, delta)
           moved == SeqMap(Move, obstacles)
       IN  /\ obstacles' = moved
           /\ despawn_q' = despawn_q \cup
                 {i \in 1..Len(moved) : moved[i].z > OBSTACLE_DESPAWN_Z}
    /\ Ran
    /\ UNCHANGED <<next_state, players, spawn_q, grounds, hud, menu_ui,
                   game_over_ui, score, spawn_timer, touch_state>>

half_x == ((PLAYER_SIZE + OBSTACLE_SIZE) * 4) \div 10
half_z == ((PLAYER_SIZE + OBSTACLE_SIZE) * 4) \div 10

\* an overlap test that is satisfied by one axis alone
Overlaps_either(px, o) ==
    \/ Abs(o.x - px) < ((PLAYER_SIZE + OBSTACLE_SIZE) * 4) \div 10
    \/ Abs(o.z - PLAYER_Z) < ((PLAYER_SIZE + OBSTACLE_SIZE) * 4) \div 10

\* the overlap test of collision_system between a player at px and obstacle o
Overlaps(px, o) ==
    LET dx == Abs(o.x - px)
        dz == Abs(o.z - PLAYER_Z)
    IN  dx < half_x /\ dz < half_z

\* collision_system recording the score without comparing it to the best
collision_system_overwrites_best ==
    /\ Runs("collision_system")
    /\ IF Len(players) = 1
          /\ \E i \in 1..Len(obstacles) : Overlaps(players[1].x, obstacles[i])
       THEN /\ score' = [score EXCEPT !.best = score.value]
            /\ next_state' = "GameOver"
       ELSE UNCHANGED <<score, next_state>>
    /\ Ran
    /\ UNCHANGED <<players, obstacles, spawn_q, despawn_q, grounds, hud,
                   menu_ui, game_over_ui, spawn_timer, touch_state>>

collision_system ==
    /\ Runs("collision_system")
    /\ IF Len(players) = 1
          /\ \E i \in 1..Len(obstacles) : Overlaps(players[1].x, obstacles[i])
       THEN /\ score' = IF score.value > score.best
                        THEN [score EXCEPT !.best = score.value]
                        ELSE score
            /\ next_state' = "GameOver"
       ELSE UNCHANGED <<score, next_state>>
    /\ Ran
    /\ UNCHANGED <<players, obstacles, spawn_q, despawn_q, grounds, hud,
                   menu_ui, game_over_ui, spawn_timer, touch_state>>

score_system ==
    /\ Runs("score_system")
    /\ score' = [score EXCEPT !.value = score.value + delta]
    /\ Ran
    /\ UNCHANGED <<next_state, players, obstacles, spawn_q, despawn_q, grounds,
                   hud, menu_ui, game_over_ui, spawn_timer, touch_state>>

\* score.is_changed() holds in every frame, score_system writes score in each
update_score_text ==
    /\ Runs("update_score_text")
    /\ LET Show(t) == AsI32(score.value) IN hud' = SeqMap(Show, hud)
    /\ Ran
    /\ UNCHANGED <<next_state, players, obstacles, spawn_q, despawn_q, grounds,
                   menu_ui, game_over_ui, score, spawn_timer, touch_state>>

RECURSIVE Remaining(_, _, _)
\* the elements of s whose index (counted from i) is not in gone
Remaining(s, i, gone) ==
    IF s = <<>> THEN <<>>
    ELSE (IF i \in gone THEN <<>> ELSE <<Head(s)>>) \o Remaining(Tail(s), i + 1, gone)

\* the end of the Update schedule: the queued commands are applied
apply_deferred ==
    /\ phase = "update" /\ todo = <<>>
    /\ obstacles' = Remaining(obstacles, 1, despawn_q) \o spawn_q
    /\ spawn_q' = <<>>
    /\ despawn_q' = {}
    /\ delta' = 0
    /\ input' = NoInput
    /\ phase' = "idle"
    /\ UNCHANGED <<cvars, state, next_state, todo, players, grounds, hud, menu_ui,
                   game_over_ui, score, spawn_timer, touch_state>>

\* exit_playing without the loop over q_player
exit_playing_keeps_players ==
    /\ phase = "idle" /\ next_state # "None" /\ state = "Playing"
    /\ state' = next_state
    /\ next_state' = "None"
    /\ obstacles' = <<>>
    /\ hud' = <<>>
    /\ phase' = "enter"
    /\ UNCHANGED <<cvars, todo, delta, input, players, spawn_q, despawn_q, grounds,
                   menu_ui, game_over_ui, score, spawn_timer, touch_state>>

\* exit_playing without the loop over q_obstacles
exit_playing_keeps_obstacles ==
    /\ phase = "idle" /\ next_state # "None" /\ state = "Playing"
    /\ state' = next_state
    /\ next_state' = "None"
    /\ players' = <<>>
    /\ hud' = <<>>
    /\ phase' = "enter"
    /\ UNCHANGED <<cvars, todo, delta, input, obstacles, spawn_q, despawn_q, grounds,
                   menu_ui, game_over_ui, score, spawn_timer, touch_state>>

\* OnExit(Playing)
exit_playing ==
    /\ phase = "idle" /\ next_state # "None" /\ state = "Playing"
    /\ state' = next_state
    /\ next_state' = "None"
    /\ players' = <<>>
    /\ obstacles' = <<>>
    /\ hud' = <<>>
    /\ phase' = "enter"
    /\ UNCHANGED <<cvars, todo, delta, input, spawn_q, despawn_q, grounds, menu_ui,
                   game_over_ui, score, spawn_timer, touch_state>>

\* ------------------------------------------------------------------------
\* GameOver
\* ------------------------------------------------------------------------
enter_game_over ==
    /\ phase = "enter" /\ state = "GameOver"
    /\ game_over_ui' = Append(game_over_ui,
            [score |-> AsI32(score.value), best |-> AsI32(score.best)])
    /\ phase' = "idle"
    /\ UNCHANGED <<cvars, state, next_state, todo, delta, input, players, obstacles,
                   spawn_q, despawn_q, grounds, hud, menu_ui, score,
                   spawn_timer, touch_state>>

game_over_restart ==
    /\ Runs("game_over_restart")
    /\ \E i \in InputChoices :
          /\ next_state' = IF PrimaryInput(i) /\ grounds < MaxRounds
                           THEN "Playing" ELSE next_state
          /\ RanWith(i)
    /\ UNCHANGED <<players, obstacles, spawn_q, despawn_q, grounds, hud,
                   menu_ui, game_over_ui, score, spawn_timer, touch_state>>

exit_game_over ==
    /\ phase = "idle" /\ next_state # "None" /\ state = "GameOver"
    /\ state' = next_state
    /\ next_state' = "None"
    /\ game_over_ui' = <<>>
    /\ phase' = "enter"
    /\ UNCHANGED <<cvars, todo, delta, input, players, obstacles, spawn_q, despawn_q,
                   grounds, hud, menu_ui, score, spawn_timer, touch_state>>

\* ------------------------------------------------------------------------
\* Calculator (app.rs)
\*
\* An f64 is a sign and a magnitude in units of 1/Scale: [neg, mag].  The
\* arithmetic is exact decimal arithmetic; an operation whose result has more
\* than FracDigits decimals or exceeds MaxValue is outside the model (the
\* guard Fits disables it), as is typing more than MaxTyped characters.
\* ------------------------------------------------------------------------
\* number of decimals of a value
FracDigits == 1
\* largest magnitude of a value
MaxValue == 5
\* largest length of a display typed digit by digit
MaxTyped == 3
\* the digit buttons pressed
CalcDigits == {0, 1, 5}

RECURSIVE Pow10(_)
Pow10(n) == IF n = 0 THEN 1 ELSE 10 * Pow10(n - 1)
Scale == Pow10(FracDigits)

Operations == {"Add", "Subtract", "Multiply", "Divide"}

Num(neg, mag) == [neg |-> neg, mag |-> mag]
Zero == Num(FALSE, 0)
ToInt(n) == IF n.neg THEN -n.mag ELSE n.mag
IsZero(n) == n.mag = 0
\* -num
Negate(n) == Num(~n.neg, n.mag)

\* a + b; an exact zero sum is -0.0 only if both operands are -0.0
NumAdd(a, b) ==
    LET v == ToInt(a) + ToInt(b)
    IN  IF v = 0 THEN Num(a.neg /\ b.neg, 0) ELSE Num(v < 0, Abs(v))
NumSub(a, b) == NumAdd(a, Negate(b))
NumMul(a, b) == Num(a.neg # b.neg, (a.mag * b.mag) \div Scale)
\* a / b for b # 0
NumDiv(a, b) == Num(a.neg # b.neg, (a.mag * Scale) \div b.mag)

\* the result of the arithmetic is a value of the model
ExactMul(a, b) == (a.mag * b.mag) % Scale = 0
ExactDiv(a, b) == b.mag # 0 /\ (a.mag * Scale) % b.mag = 0
InRange(n) == n.mag <= MaxValue * Scale

DigitChars == <<"0", "1", "2", "3", "4", "5", "6", "7", "8", "9">>
\* digit.to_string()
DigitChar(d) == DigitChars[d + 1]
\* the value of a digit character
DigitOf == [c \in {DigitChars[i] : i \in 1..10} |->
              CHOOSE d \in 0..9 : DigitChars[d + 1] = c]
IsDigitChar(c) == c \in DOMAIN DigitOf
DigitValue(c) == DigitOf[c]

RECURSIVE NatStr(_)
\* the decimal digits of a natural number
NatStr(n) == IF n < 10 THEN <<DigitChar(n)>> ELSE Append(NatStr(n \div 10), DigitChar(n % 10))

RECURSIVE FracStr(_, _)
\* the k decimals of f / 10^k, without trailing zeros
FracStr(f, k) ==
    IF f = 0 \/ k = 0 THEN <<>>
    ELSE <<DigitChar(f \div Pow10(k - 1))>> \o FracStr(f % Pow10(k - 1), k - 1)

\* format_number: "{:.0}" of a value without fraction, "{}" of another
format_number(n) ==
    LET sign == IF n.neg THEN <<"-">> ELSE <<>>
        int == NatStr(n.mag \div Scale)
    IN  IF n.mag % Scale = 0 THEN sign \o int
        ELSE sign \o int \o <<".">> \o FracStr(n.mag % Scale, FracDigits)

RECURSIVE DigitsValue(_)
\* the number written by a sequence of digits
DigitsValue(ds) ==
    IF ds = <<>> THEN 0
    ELSE 10 * DigitsValue(SubSeq(ds, 1, Len(ds) - 1)) + DigitValue(ds[Len(ds)])

AllDigits(ds) == \A i \in 1..Len(ds) : IsDigitChar(ds[i])
RECURSIVE DotFrom(_, _)
DotFrom(str, i) == IF i > Len(str) THEN 0
                   ELSE IF str[i] = "." THEN i ELSE DotFrom(str, i + 1)
\* the index of the first '.' of str, 0 if it has none
DotAt(str) == DotFrom(str, 1)
\* str.contains('.')
ContainsDot(str) == DotAt(str) # 0

\* str.parse::<f64>() of the strings the calculator can show: an optional
\* sign, digits with at most one '.', at least one digit.  [ok, val]
Parse(str) ==
    LET signed == str # <<>> /\ str[1] \in {"-", "+"}
        body == IF signed THEN Tail(str) ELSE str
        dot == DotAt(body)
        int == IF dot = 0 THEN body ELSE SubSeq(body, 1, dot - 1)
        frac == IF dot = 0 THEN <<>> ELSE SubSeq(body, dot + 1, Len(body))
        padded == frac \o [i \in 1..(FracDigits - Len(frac)) |-> "0"]
        ok == /\ AllDigits(int) /\ AllDigits(frac)
              /\ Len(int) + Len(frac) > 0
    IN  IF ok
        THEN [ok |-> TRUE,
              val |-> Num(signed /\ str[1] = "-",
                          DigitsValue(int) * Scale
                            + DigitsValue(SubSeq(padded, 1, FracDigits)))]
        ELSE [ok |-> FALSE, val |-> Zero]

\* parse::<f64>().unwrap_or(1.0)
ParseOr0_one(str) == IF Parse(str).ok THEN Parse(str).val ELSE Num(FALSE, Scale)

\* parse::<f64>().unwrap_or(0.0)
ParseOr0(str) == Parse(str).val

ErrorStr == <<"E", "r", "r", "o", "r">>

\* the four signals
Calc == [display |-> display, previous_value |-> previous_value,
         operation |-> operation, waiting_for_operand |-> waiting_for_operand]

\* the signals are set to those of c
Set(c) == /\ display' = c.display
          /\ previous_value' = c.previous_value
          /\ operation' = c.operation
          /\ waiting_for_operand' = c.waiting_for_operand

CalcInit ==
    /\ display = <<"0">>
    /\ previous_value = Zero
    /\ operation = "None"
    /\ waiting_for_operand = TRUE
    /\ pressed = <<>>

InputDigit(c, digit) ==
    IF c.waiting_for_operand
    THEN [c EXCEPT !.display = <<DigitChar(digit)>>, !.waiting_for_operand = FALSE]
    ELSE IF c.display = <<"0">>
         THEN [c EXCEPT !.display = <<DigitChar(digit)>>]
         ELSE [c EXCEPT !.display = Append(c.display, DigitChar(digit))]

\* input_dot without the test of current_display.contains('.')
InputDot_appends(c) ==
    IF c.waiting_for_operand
    THEN [c EXCEPT !.display = <<"0", ".">>, !.waiting_for_operand = FALSE]
    ELSE [c EXCEPT !.display = Append(c.display, ".")]

InputDot(c) ==
    IF c.waiting_for_operand
    THEN [c EXCEPT !.display = <<"0", ".">>, !.waiting_for_operand = FALSE]
    ELSE IF ~ContainsDot(c.display)
         THEN [c EXCEPT !.display = Append(c.display, ".")]
         ELSE c

\* clear without the reset of the pending operator
Clear_keeps_operation(c) ==
    [display |-> <<"0">>, previous_value |-> Zero, operation |-> c.operation,
     waiting_for_operand |-> TRUE]

Clear(c) == [display |-> <<"0">>, previous_value |-> Zero, operation |-> "None",
             waiting_for_operand |-> TRUE]

\* the match on the pending operator of perform_operation, division by zero
\* yields 0.0
OperationResult(op, current_value, input_value) ==
    CASE op = "Add" -> NumAdd(current_value, input_value)
      [] op = "Subtract" -> NumSub(current_value, input_value)
      [] op = "Multiply" -> NumMul(current_value, input_value)
      [] op = "Divide" -> IF ~IsZero(input_value) THEN NumDiv(current_value, input_value)
                          ELSE Zero
      [] op = "None" -> input_value

\* perform_operation evaluating the new operator instead of the pending one
PerformOperation_new_operator(c, next_operation) ==
    LET input_value == ParseOr0(c.display)
    IN  IF c.waiting_for_operand THEN [c EXCEPT !.operation = next_operation]
        ELSE LET result == OperationResult(next_operation, c.previous_value, input_value)
             IN  [display |-> format_number(result), previous_value |-> result,
                  operation |-> next_operation, waiting_for_operand |-> TRUE]

PerformOperation(c, next_operation) ==
    LET input_value == ParseOr0(c.display)
    IN  IF c.waiting_for_operand THEN [c EXCEPT !.operation = next_operation]
        ELSE LET result == OperationResult(c.operation, c.previous_value, input_value)
             IN  [display |-> format_number(result), previous_value |-> result,
                  operation |-> next_operation, waiting_for_operand |-> TRUE]

\* perform_calculation with the division by zero of perform_operation
PerformCalculation_zero(c) ==
    LET result == OperationResult(c.operation, c.previous_value, ParseOr0(c.display))
    IN  [display |-> format_number(result), previous_value |-> Zero,
         operation |-> "None", waiting_for_operand |-> TRUE]

\* perform_calculation that also resets the operator and the flag on a
\* division by zero
PerformCalculation_resets(c) ==
    LET input_value == ParseOr0(c.display)
    IN  IF c.operation = "Divide" /\ IsZero(input_value)
        THEN [c EXCEPT !.display = ErrorStr, !.operation = "None",
                       !.waiting_for_operand = TRUE]
        ELSE LET result == OperationResult(c.operation, c.previous_value, input_value)
             IN  [display |-> format_number(result), previous_value |-> Zero,
                  operation |-> "None", waiting_for_operand |-> TRUE]

PerformCalculation(c) ==
    LET input_value == ParseOr0(c.display)
    IN  IF c.operation = "Divide" /\ IsZero(input_value)
        THEN [c EXCEPT !.display = ErrorStr]
        ELSE LET result == OperationResult(c.operation, c.previous_value, input_value)
             IN  [display |-> format_number(result), previous_value |-> Zero,
                  operation |-> "None", waiting_for_operand |-> TRUE]

\* the "±" button
ToggleSign(c) ==
    LET num == Parse(c.display)
    IN  IF num.ok THEN [c EXCEPT !.display = format_number(Negate(num.val))] ELSE c

\* the "%" button
Percent(c) ==
    LET num == Parse(c.display)
    IN  IF num.ok
        THEN [c EXCEPT !.display = format_number(Num(num.val.neg, num.val.mag \div 100))]
        ELSE c

\* the arithmetic of the pending operator on the display gives a value of the
\* model
Fits(c) ==
    LET a == c.previous_value
        b == ParseOr0(c.display)
    IN  /\ c.operation = "Multiply" => ExactMul(a, b)
        /\ (c.operation = "Divide" /\ ~IsZero(b)) => ExactDiv(a, b)
        /\ InRange(OperationResult(c.operation, a, b))

\* the display has room for one more typed character
Typeable(c) ==
    c.waiting_for_operand \/ c.display = <<"0">> \/ Len(c.display) < MaxTyped

input_digit ==
    \E digit \in CalcDigits :
        /\ Typeable(Calc)
        /\ ContainsDot(display) /\ ~waiting_for_operand =>
              Len(display) - DotAt(display) < FracDigits
        /\ Set(InputDigit(Calc, digit))
        /\ UNCHANGED <<gvars, pressed>>

input_dot ==
    /\ Typeable(Calc)
    /\ Set(InputDot(Calc))
    /\ UNCHANGED <<gvars, pressed>>

clear ==
    /\ Set(Clear(Calc))
    /\ UNCHANGED <<gvars, pressed>>

perform_operation ==
    \E next_operation \in Operations :
        /\ waiting_for_operand \/ Fits(Calc)
        /\ Set(PerformOperation(Calc, next_operation))
        /\ UNCHANGED <<gvars, pressed>>

perform_calculation ==
    /\ Fits(Calc)
    /\ Set(PerformCalculation(Calc))
    /\ UNCHANGED <<gvars, pressed>>

toggle_sign ==
    /\ Set(ToggleSign(Calc))
    /\ UNCHANGED <<gvars, pressed>>

percent ==
    /\ Parse(display).ok => Parse(display).val.mag % 100 = 0
    /\ Set(Percent(Calc))
    /\ UNCHANGED <<gvars, pressed>>

CalcNext ==
    \/ input_digit
    \/ input_dot
    \/ clear
    \/ perform_operation
    \/ perform_calculation
    \/ toggle_sign
    \/ percent

\* ------------------------------------------------------------------------
\* Calculator: key sequences.  KeySpec and ExprSpec record the keys pressed
\* (pressed) and follow every sequence of at most MaxKeys / MaxExprKeys keys
\* from the initial state, with operands and results up to MaxOperand.
\* ------------------------------------------------------------------------
\* largest number of keys of a sequence of KeySpec
MaxKeys == 5
\* largest number of keys of a sequence of ExprSpec
MaxExprKeys == 6

\* largest magnitude of an operand and of a result in KeySpec and ExprSpec
MaxOperand == 100

OperatorKeys == {"+", "-", "*", "/"}
\* the Operation of an operator key (app.rs:121-124)
OperationOf(k) ==
    CASE k = "+" -> "Add"
      [] k = "-" -> "Subtract"
      [] k = "*" -> "Multiply"
      [] k = "/" -> "Divide"

\* the keys of KeySpec: every key of handle_key_press and the buttons "±"
\* (written "+/-") and "%"
KeyChoices ==
    {DigitChar(d) : d \in CalcDigits} \cup OperatorKeys \cup {".", "=", "C", "+/-", "%"}

\* the keys of ExprSpec: operands of one digit, operators and "="
ExprDigits == {1, 2, 3, 4}
ExprKeys == {DigitChar(d) : d \in ExprDigits} \cup OperatorKeys \cup {"="}

\* handle_key_press and the on:click closures of the buttons
HandleKey(c, k) ==
    CASE IsDigitChar(k) -> InputDigit(c, DigitValue(k))
      [] k \in OperatorKeys -> PerformOperation(c, OperationOf(k))
      [] k = "=" -> PerformCalculation(c)
      [] k = "." -> InputDot(c)
      [] k = "C" -> Clear(c)
      [] k = "+/-" -> ToggleSign(c)
      [] k = "%" -> Percent(c)

\* the arithmetic of the pending operator on the display is exact in units
\* of 1/Scale, on operands and with a result of at most MaxOperand
ExactOperation(c) ==
    LET a == c.previous_value
        b == ParseOr0(c.display)
    IN  /\ a.mag <= MaxOperand * Scale /\ b.mag <= MaxOperand * Scale
        /\ c.operation = "Multiply" => ExactMul(a, b)
        /\ (c.operation = "Divide" /\ ~IsZero(b)) => ExactDiv(a, b)
        /\ OperationResult(c.operation, a, b).mag <= MaxOperand * Scale

\* the effect of key k in c is a value of the model
Exact(c, k) ==
    CASE IsDigitChar(k) ->
            (ContainsDot(c.display) /\ ~c.waiting_for_operand) =>
                Len(c.display) - DotAt(c.display) < FracDigits
      [] k \in OperatorKeys -> c.waiting_for_operand \/ ExactOperation(c)
      [] k = "=" -> ExactOperation(c)
      [] k = "%" -> Parse(c.display).ok => Parse(c.display).val.mag % 100 = 0
      [] OTHER -> TRUE

\* key k is pressed, as one of at most max keys
KeyPress(k, max) ==
    /\ Len(pressed) < max
    /\ Exact(Calc, k)
    /\ Set(HandleKey(Calc, k))
    /\ pressed' = Append(pressed, k)
    /\ UNCHANGED gvars

key_press == \E k \in KeyChoices : KeyPress(k, MaxKeys)

expr_key == \E k \in ExprKeys : KeyPress(k, MaxExprKeys)

Init == GameInit /\ CalcInit

Next ==
    \/ Tick
    \/ menu_start
    \/ exit_menu
    \/ enter_playing
    \/ player_input
    \/ update_player_transform
    \/ spawn_obstacles
    \/ move_obstacles
    \/ collision_system
    \/ score_system
    \/ update_score_text
    \/ apply_deferred
    \/ exit_playing
    \/ enter_game_over
    \/ game_over_restart
    \/ exit_game_over

Spec == Init /\ [][Next]_vars

\* The first round up to MaxSteerScore, with the steering input of
\* SteerChoices; no obstacle reaches the player within that time
SteerNext ==
    \/ SteerTick
    \/ menu_start
    \/ exit_menu
    \/ enter_playing
    \/ steer_input
    \/ update_player_transform
    \/ spawn_obstacles
    \/ move_obstacles
    \/ collision_system
    \/ score_system
    \/ update_score_text
    \/ apply_deferred

SteerSpec == Init /\ [][SteerNext]_vars

\* The first round up to MaxLerpScore: steering as in SteerSpec until
\* MaxSteerScore, then frames of positive duration without input.  The engine
\* keeps running frames.
LerpNext ==
    \/ LerpTick
    \/ menu_start
    \/ exit_menu
    \/ enter_playing
    \/ lerp_input
    \/ update_player_transform
    \/ spawn_obstacles
    \/ move_obstacles
    \/ collision_system
    \/ score_system
    \/ update_score_text
    \/ apply_deferred

LerpSpec == Init /\ [][LerpNext]_vars /\ WF_vars(LerpNext)

\* The first round up to MaxTunnelScore with frames of TunnelDeltas and a
\* player that is not steered; the round ends with the request of GameOver
TunnelNext ==
    \/ TunnelTick
    \/ menu_start
    \/ exit_menu
    \/ enter_playing
    \/ idle_input
    \/ update_player_transform
    \/ spawn_obstacles
    \/ move_obstacles
    \/ collision_system
    \/ score_system
    \/ update_score_text
    \/ apply_deferred

TunnelSpec == Init /\ [][TunnelNext]_vars

CalcSpec == Init /\ [][CalcNext]_vars

KeySpec == Init /\ [][key_press]_vars

ExprSpec == Init /\ [][expr_key]_vars

\* ------------------------------------------------------------------------
\* Lane runner: properties
\* ------------------------------------------------------------------------
\* some obstacle overlaps the single player on both axes
Collides == /\ Len(players) = 1
            /\ \E i \in 1..Len(obstacles) : Overlaps(players[1].x, obstacles[i])

\* a step that changes State<GameState> applies the requested transition,
\* which is one of the three edges of the state machine
StateEdge ==
    state' # state =>
        /\ state' = next_state
        /\ <<state, state'>> \in {<<"Menu", "Playing">>, <<"Playing", "GameOver">>,
                                  <<"GameOver", "Playing">>}

\* a step that requests a transition is menu_start or game_over_restart
\* reading a primary input, or collision_system finding a collision
RequestCause ==
    (next_state' # next_state /\ next_state' # "None") =>
        \/ /\ state = "Menu" /\ Runs("menu_start") /\ PrimaryInput(input')
           /\ next_state' = "Playing"
        \/ /\ state = "Playing" /\ Runs("collision_system") /\ Collides
           /\ next_state' = "GameOver"
        \/ /\ state = "GameOver" /\ Runs("game_over_restart") /\ PrimaryInput(input')
           /\ next_state' = "Playing"

\* a primary input read in Menu requests Playing
MenuStarts ==
    (Runs("menu_start") /\ PrimaryInput(input') /\ todo' # todo) => next_state' = "Playing"

\* C1: the game starts in Menu; the state changes only along Menu->Playing
\* (requested by a primary input read in Menu), Playing->GameOver (requested
\* by collision_system on a collision) and GameOver->Playing (requested by a
\* primary input read in GameOver); Menu is never re-entered and no input
\* requests a transition while Playing.
C1_Transitions ==
    /\ state = "Menu"
    /\ [][StateEdge /\ RequestCause /\ MenuStarts]_vars

\* a second round is being played: every edge of the state machine was taken
C1_Witness == state = "Playing" /\ grounds = 2 /\ phase = "update"

\* C2: in every Update tick of the Playing state, in the first round and in
\* every round after a restart, exactly one Player entity exists.
C2_OnePlayer == (state = "Playing" /\ phase = "update") => Len(players) = 1

\* an Update tick of the second round
C2_Witness ==
    state = "Playing" /\ phase = "update" /\ grounds = 2 /\ Len(players) = 1
    /\ Len(todo) = 3

\* C3: target_x and the x position of every player are within
\* [-TRACK_HALF_X, TRACK_HALF_X] in every reachable state.
C3_OnTrack ==
    \A i \in 1..Len(players) :
        /\ -TRACK_HALF_X <= players[i].target_x /\ players[i].target_x <= TRACK_HALF_X
        /\ -TRACK_HALF_X <= players[i].x /\ players[i].x <= TRACK_HALF_X

\* the player stands on the left edge of the track, and a step to the left
\* was just read
C3_Witness ==
    /\ Len(players) = 1
    /\ players[1].x = -TRACK_HALF_X /\ players[1].target_x = -TRACK_HALF_X
    /\ input = Keys({"ArrowLeft"})

Max(a, b) == IF a >= b THEN a ELSE b

\* a step of collision_system that finds a collision
CollisionStep == Runs("collision_system") /\ todo' # todo /\ Collides

\* C4: score.best never decreases; it changes only in a step of
\* collision_system that detects an overlap, and then it is the greater of
\* the old best and score.value as collision_system reads it; the other
\* steps, entering Playing among them, leave it unchanged.
C4_BestMonotone ==
    [][/\ score'.best >= score.best
       /\ score'.best # score.best => CollisionStep
       /\ CollisionStep => score'.best = Max(score.best, score.value)]_vars

\* a round has ended with a score below the best of the round before
C4_Witness == state = "GameOver" /\ grounds = 2 /\ score.best > score.value + 20

\* the two axis tests of the claim, half = 0.64
OverlapX(o, p) == Abs(o.x - p.x) < 64
OverlapZ(o) == Abs(o.z - PLAYER_Z) < 64

\* C5: collision_system requests GameOver exactly when some live obstacle
\* overlaps the player on both axes at once (|dx| < 0.64 and |dz| < 0.64);
\* an overlap on one axis alone requests nothing.
C5_BothAxes ==
    [][(Runs("collision_system") /\ todo' # todo) =>
          /\ Len(players) = 1
          /\ (next_state' = "GameOver") <=>
                \E i \in 1..Len(obstacles) :
                    OverlapX(obstacles[i], players[1]) /\ OverlapZ(obstacles[i])
          /\ next_state' # "GameOver" => next_state' = next_state]_vars

\* collision_system has run and requested nothing, with one obstacle beside
\* the player (z overlap alone) and another straight ahead (x overlap alone)
C5_Witness ==
    /\ state = "Playing" /\ phase = "update" /\ next_state = "None"
    /\ Len(players) = 1
    /\ todo = <<"score_system", "update_score_text">>
    /\ \E i \in 1..Len(obstacles) :
          OverlapZ(obstacles[i]) /\ ~OverlapX(obstacles[i], players[1])
    /\ \E i \in 1..Len(obstacles) :
          OverlapX(obstacles[i], players[1]) /\ ~OverlapZ(obstacles[i])

\* C6: an obstacle that move_obstacles has advanced past OBSTACLE_DESPAWN_Z is
\* queued for despawn in that tick, and no obstacle beyond OBSTACLE_DESPAWN_Z
\* is alive when the tick is over.
C6_Despawned ==
    \A i \in 1..Len(obstacles) :
        obstacles[i].z > OBSTACLE_DESPAWN_Z => (phase = "update" /\ i \in despawn_q)

\* an obstacle has passed the boundary in this tick, others are on their way
C6_Witness == phase = "update" /\ despawn_q # {} /\ Len(obstacles) > 1

\* the entities that each state spawns, when no transition is under way
OwnedEntities ==
    CASE state = "Menu" ->
            /\ menu_ui = 1 /\ grounds = 0 /\ players = <<>> /\ obstacles = <<>>
            /\ hud = <<>> /\ game_over_ui = <<>>
      [] state = "Playing" ->
            /\ menu_ui = 0 /\ grounds = 1 /\ Len(players) = 1
            /\ Len(hud) = 1 /\ game_over_ui = <<>>
      [] state = "GameOver" ->
            /\ menu_ui = 0 /\ grounds = 0 /\ players = <<>> /\ obstacles = <<>>
            /\ hud = <<>> /\ Len(game_over_ui) = 1

\* C7: no entity leaks across states: between transitions the entities
\* spawned by the states are exactly those of the current state, whatever the
\* number of rounds played.
C7_NoLeak == phase # "enter" => OwnedEntities

\* C8: while the state is Menu or GameOver no Player and no Obstacle exists.
C8_PlayingOwns ==
    state \in {"Menu", "GameOver"} =>
        players = <<>> /\ obstacles = <<>> /\ spawn_q = <<>>

\* GameOver after a round that had a player and obstacles
C8_Witness == state = "GameOver" /\ phase = "idle" /\ score.value >= 400

\* a step of enter_playing
EnterPlayingStep == phase = "enter" /\ state = "Playing" /\ phase' = "idle"

\* C9: score.value is 0 after every entry into Playing, does not decrease
\* from step to step within a round, and is not modified while the state is
\* Menu or GameOver; the transitions leave score.best unchanged.
C9_Score ==
    [][/\ EnterPlayingStep => score'.value = 0
       /\ (state = "Playing" /\ state' = "Playing" /\ ~EnterPlayingStep) =>
              score'.value >= score.value
       /\ state' \in {"Menu", "GameOver"} => score'.value = score.value
       /\ (phase # "update" \/ todo = <<>>) => score'.best = score.best]_vars

\* the second round starts: the value is reset, the best is kept
C9_Witness ==
    state = "Playing" /\ phase = "idle" /\ grounds = 2 /\ score.value = 0
    /\ score.best > 0

\* ------------------------------------------------------------------------
\* Calculator: properties
\* ------------------------------------------------------------------------
\* Divide is pending and the operand entered after it is zero
DivideByZeroPending ==
    /\ operation = "Divide"
    /\ ~waiting_for_operand
    /\ Parse(display).ok /\ IsZero(Parse(display).val)

\* C10: with Divide pending and an entered operand of 0, an operator press
\* sets the display to "0" and the stored operand to 0 and stores the new
\* operator, and "=" sets the display to "Error" (and nothing else).
C10_DivideByZero ==
    DivideByZeroPending =>
        /\ \A next_operation \in Operations :
              PerformOperation(Calc, next_operation) =
                 [display |-> <<"0">>, previous_value |-> Zero,
                  operation |-> next_operation, waiting_for_operand |-> TRUE]
        /\ PerformCalculation(Calc) = [Calc EXCEPT !.display = ErrorStr]

\* "=" was pressed after 5 / 0: the display shows Error
C10_Witness ==
    /\ display = ErrorStr
    /\ operation = "Divide" /\ ~waiting_for_operand
    /\ previous_value = Num(FALSE, 5 * Scale)

\* ------------------------------------------------------------------------
\* Calculator: properties of key sequences
\* ------------------------------------------------------------------------
\* the step presses key k
Pressing(k) == pressed' = Append(pressed, k)

\* the value of a decimal number of units of 1/Scale
FromInt(v) == Num(v < 0, Abs(v))

\* x op y on numbers of units of 1/Scale, y # 0 for "/"
Arith(k, x, y) ==
    CASE k = "+" -> x + y
      [] k = "-" -> x - y
      [] k = "*" -> (x * y) \div Scale
      [] k = "/" -> (x * Scale) \div y

\* the operand typed by the digit key k
Operand(k) == DigitValue(k) * Scale

\* pressed is a op1 b op2 c "=" with operands of one digit
IsExpression ==
    /\ Len(pressed) = 6
    /\ IsDigitChar(pressed[1]) /\ pressed[2] \in OperatorKeys
    /\ IsDigitChar(pressed[3]) /\ pressed[4] \in OperatorKeys
    /\ IsDigitChar(pressed[5]) /\ pressed[6] = "="

\* the display shows ((a op1 b) op2 c)
LeftToRight ==
    IsExpression =>
        display = format_number(FromInt(
            Arith(pressed[4],
                  Arith(pressed[2], Operand(pressed[1]), Operand(pressed[3])),
                  Operand(pressed[5]))))

\* an operator press after an operand evaluates the pending operator and then
\* stores the new one; while waiting for an operand it only stores the new one
OperatorPress ==
    \A k \in OperatorKeys :
        Pressing(k) =>
            IF waiting_for_operand
            THEN /\ operation' = OperationOf(k)
                 /\ UNCHANGED <<display, previous_value, waiting_for_operand>>
            ELSE LET r == OperationResult(operation, previous_value, ParseOr0(display))
                 IN  /\ display' = format_number(r)
                     /\ previous_value' = r
                     /\ operation' = OperationOf(k)
                     /\ waiting_for_operand'

\* C11 (amended): an operator press made after an operand was entered
\* evaluates the pending operator on the stored operand and the displayed
\* value, shows and stores the result and then stores the new operator; an
\* operator press made while the calculator waits for an operand only
\* replaces the stored operator.  From the initial state the keys
\* a op1 b op2 c "=" display ((a op1 b) op2 c), left to right.
C11_LeftToRight == [][OperatorPress]_vars /\ []LeftToRight

\* 2 + 3 * 4 = shows 20
C11_Witness ==
    pressed = <<"2", "+", "3", "*", "4", "=">> /\ display = <<"2", "0">>

\* C11: every operator press evaluates the pending operator on the stored
\* operand and the displayed value, shows and stores the result, and then
\* stores the new operator.
C11_EveryOperatorPress ==
    [][\A k \in OperatorKeys :
          Pressing(k) =>
              LET r == OperationResult(operation, previous_value, ParseOr0(display))
              IN  /\ display' = format_number(r)
                  /\ previous_value' = r
                  /\ operation' = OperationOf(k)]_vars

\* the number of '.' of a string
DotCount(str) == Cardinality({i \in 1..Len(str) : str[i] = "."})

\* C12: the display never contains more than one '.', and a press of '.'
\* while the number being composed contains one leaves the display unchanged.
C12_OneDot ==
    /\ [](DotCount(display) <= 1)
    /\ [][(Pressing(".") /\ ~waiting_for_operand /\ ContainsDot(display)) =>
             display' = display]_vars

\* "1.5" then '.' stays "1.5"
C12_Witness ==
    pressed = <<"1", ".", "5", ".">> /\ display = <<"1", ".", "5">>

\* the last key pressed
LastKey == IF pressed = <<>> THEN "" ELSE pressed[Len(pressed)]

\* C13: after clear, pressed in any state, the calculator is in its initial
\* state: display "0", stored operand 0, no pending operator, waiting for an
\* operand; a second clear changes nothing.
C13_Clear ==
    LastKey = "C" =>
        Calc = [display |-> <<"0">>, previous_value |-> Zero, operation |-> "None",
                waiting_for_operand |-> TRUE]

\* clear was pressed while the display showed Error and Divide was pending
C13_Witness == pressed = <<"5", "/", "0", "=", "C">> /\ display = <<"0">>

\* ------------------------------------------------------------------------
\* Lane runner: properties of the frame
\* ------------------------------------------------------------------------
\* C14: in every Playing tick the systems run once each in the declared
\* order: the systems still to run are always a suffix of PlayingSystems.
C14_DeclaredOrder ==
    (state = "Playing" /\ phase = "update") =>
        \E n \in 0..Len(PlayingSystems) :
            todo = SubSeq(PlayingSystems, n + 1, Len(PlayingSystems))

\* C17: at every entry into GameOver, and as long as the game-over screen is
\* shown, score.best >= score.value.
C17_BestAtGameOver == state = "GameOver" => score.best >= score.value

Min(a, b) == IF a <= b THEN a ELSE b

\* a step of update_player_transform
LerpRuns == Runs("update_player_transform") /\ todo' # todo

\* update_player_transform moves x by at most PLAYER_LERP_SPEED * delta, to a
\* position between x and target_x; no other step moves a player
LerpSafe ==
    (Len(players) = 1 /\ Len(players') = 1) =>
        LET p == players[1]
            q == players'[1]
        IN  IF LerpRuns
            THEN /\ Abs(q.x - p.x) <= PLAYER_LERP_SPEED * delta
                 /\ Min(p.x, p.target_x) <= q.x /\ q.x <= Max(p.x, p.target_x)
                 /\ q.target_x = p.target_x
            ELSE q.x = p.x

\* the target is fixed from now on and the frames have a positive duration
TargetFixed == state = "Playing" /\ Len(players) = 1 /\ score.value >= MaxSteerScore

Settled == Len(players) = 1 /\ players[1].x = players[1].target_x

\* C15: update_player_transform changes x by at most PLAYER_LERP_SPEED * delta,
\* towards target_x and never past it, nothing else changes x, and once
\* target_x stays fixed and the frames have a positive duration x eventually
\* equals target_x.
C15_NoTeleport == [][LerpSafe]_vars /\ (TargetFixed ~> Settled)

\* the player is left of the middle of the track, the fixed target at the
\* right edge: more than two frames away
C15_Witness ==
    /\ TargetFixed
    /\ players[1].x < 0 /\ players[1].target_x = TRACK_HALF_X

\* the display does not parse as a number
Unparsable == ~Parse(display).ok

\* the result of the pending operator with 0 as the displayed operand
ResultWith0 == OperationResult(operation, previous_value, Zero)

\* C16: when the display does not parse as a number, an operator press made
\* after input and "=" use 0 as the displayed operand, and every key is
\* still processed.
C16_ParseDefault ==
    /\ [][Unparsable =>
            /\ \A k \in OperatorKeys :
                  (Pressing(k) /\ ~waiting_for_operand) =>
                      /\ display' = format_number(ResultWith0)
                      /\ previous_value' = ResultWith0
                      /\ operation' = OperationOf(k)
                      /\ waiting_for_operand'
            /\ Pressing("=") =>
                  IF operation = "Divide"
                  THEN /\ display' = ErrorStr
                       /\ UNCHANGED <<previous_value, operation, waiting_for_operand>>
                  ELSE /\ display' = format_number(ResultWith0)
                       /\ previous_value' = Zero /\ operation' = "None"
                       /\ waiting_for_operand']_vars
    /\ [](Unparsable => \A k \in KeyChoices : Len(HandleKey(Calc, k).display) > 0)

\* "+" was pressed on "Error5": Divide was evaluated on 5 and 0
C16_Witness ==
    /\ pressed = <<"/", "0", "=", "5", "+">>
    /\ display = <<"0">> /\ operation = "Add" /\ waiting_for_operand

\* pressed is r "=" op y "=" with r and y of one digit, y # 0 for "/"
IsCarry ==
    /\ Len(pressed) = 5
    /\ IsDigitChar(pressed[1]) /\ pressed[2] = "="
    /\ pressed[3] \in OperatorKeys
    /\ IsDigitChar(pressed[4]) /\ pressed[5] = "="
    /\ ~(pressed[3] = "/" /\ pressed[4] = "0")

\* C18: after "=" displays a result r, an operator op, an operand y and "="
\* display r op y.
C18_ResultCarried ==
    IsCarry =>
        display = format_number(FromInt(
            Arith(pressed[3], Operand(pressed[1]), Operand(pressed[4]))))

\* C19: the display is "Error" or parses as a number.
C19_ErrorOrNumber == display = ErrorStr \/ Parse(display).ok

\* Divide is pending and the displayed operand is 0
DivisionByZero == operation = "Divide" /\ IsZero(ParseOr0(display))

\* the keys that change nothing after a division by zero
IdleKeys == {"=", "+/-", "%"}

\* C20: "=" on a division by zero sets the display to "Error" and leaves the
\* stored operand, the pending operator and the waiting flag unchanged; in
\* that state (display "Error", Divide pending) "=" and the sign and percent
\* buttons change nothing: only clear, an operator or new input leave it.
C20_ErrorState ==
    [][/\ (Pressing("=") /\ DivisionByZero) =>
             /\ display' = ErrorStr
             /\ UNCHANGED <<previous_value, operation, waiting_for_operand>>
       /\ (display = ErrorStr /\ operation = "Divide") =>
             /\ \A k \in IdleKeys : Pressing(k) => Calc' = Calc
             /\ Calc' # Calc => \E k \in KeyChoices \ IdleKeys : Pressing(k)]_vars

\* "=" was pressed twice on 5 / 0
C20_Witness ==
    /\ pressed = <<"5", "/", "0", "=", "=">>
    /\ display = ErrorStr /\ operation = "Divide"
    /\ previous_value = Num(FALSE, 5 * Scale) /\ ~waiting_for_operand

\* ------------------------------------------------------------------------
\* Lane runner: properties of the flight of an obstacle
\* ------------------------------------------------------------------------
\* C21: an obstacle that stays within collision distance of the player on x
\* (the player of TunnelSpec does not move) causes a GameOver request before
\* it is despawned: no such obstacle is beyond OBSTACLE_DESPAWN_Z while the
\* game goes on.
C21_NoTunnel ==
    (state = "Playing" /\ Len(players) = 1) =>
        \A i \in 1..Len(obstacles) :
            (OverlapX(obstacles[i], players[1]) /\ obstacles[i].z > OBSTACLE_DESPAWN_Z)
                => next_state = "GameOver"

\* ------------------------------------------------------------------------
\* Lane runner: properties of the touch input
\* ------------------------------------------------------------------------
\* a step of player_input
InputRuns == Runs("player_input") /\ todo' # todo

\* the step reads touch events only, none of them of the active touch
OtherTouches ==
    /\ touch_state.active_id # <<>>
    /\ input'.keys = {} /\ input'.touch # <<>>
    /\ \A n \in 1..Len(input'.touch) : <<input'.touch[n].id>> # touch_state.active_id

\* C22: TouchState.anchor is set exactly when TouchState.active_id is, and
\* while a touch is active the events of another touch id, whatever their
\* phase, change neither TouchState nor the target of the player.
C22_OneTouch ==
    /\ []((touch_state.anchor # <<>>) <=> (touch_state.active_id # <<>>))
    /\ [][(InputRuns /\ OtherTouches) =>
             /\ touch_state' = touch_state
             /\ players' = players]_vars

\* a drag of finger 2 to the right edge was read while finger 1 is the active
\* touch, anchored at the left
C22_Witness ==
    /\ touch_state = [active_id |-> <<1>>, anchor |-> <<0>>]
    /\ input = Touches(<<Touch("Moved", 2, MaxDragPx)>>)
    /\ Len(players) = 1 /\ players[1].target_x = 0

====
